---- MODULE Spec2Model ----
(***************************************************************************)
(* Model of app.py: a Flask application that renders an uploaded source    *)
(* file to a PNG, keeps the PNG in the process-wide SCREENSHOT_CACHE under *)
(* a random key, and hands the key to the visitor in the session cookie.   *)
(* Three handlers: index() on GET /, index() on POST /, download_image()   *)
(* on GET /download.  In Spec every request runs to completion before the  *)
(* next one starts.                                                        *)
(***************************************************************************)
EXTENDS Integers, Sequences, FiniteSets, TLC

(***************************************************************************)
(* Bounds of the model                                                     *)
(***************************************************************************)
\* number of visitors (session cookies)
NumSessions == 2
\* number of uuid4 values drawn (successful uploads) in one behaviour
MaxUploads == 2

Sessions == 1..NumSessions

(***************************************************************************)
(* Program constants                                                       *)
(***************************************************************************)
MAX_CONTENT_LENGTH == 1 * 1024 * 1024

\* absent values: session.get('cache_id') -> None, image_data = None, ...
NoId == 0
NoImage == "None"
NoFilename == << >>

\* flash() messages and RuntimeError messages of the source
MsgNoFileUploaded == "No file uploaded."
MsgNoFileSelected == "No file selected."
MsgTooLarge ==
    "File too large. Maximum size is " \o ToString(MAX_CONTENT_LENGTH \div 1024) \o " KB."
MsgBadEncoding == "Invalid file encoding. Please upload a UTF-8 encoded text file."
MsgNoImage == "No image available for download. Please generate an image first."
MsgBinariesMissing ==
    "Playwright browser binaries are missing. Please ensure 'playwright install' is run during deployment."
MsgRenderFailed == "Failed to generate screenshot: "
NoFlash == ""

\* f"..._code_image.png"
Suffix == << "_", "c", "o", "d", "e", "_", "i", "m", "a", "g", "e", ".", "p", "n", "g" >>

(***************************************************************************)
(* Inputs                                                                  *)
(***************************************************************************)
\* PNG byte strings the browser can produce
Images == { "png_a", "png_b" }

\* file.filename as sent by the browser, one character per element
FileNames ==
    { << >>,
      << "a", ".", "b", ".", "p" >>,
      << "/", ".", "a", " ", "$", "b" >> }

\* the first bytes of the file; the rest of the file is ASCII padding
Heads == { << >>, << 195, 169 >>, << 255 >> }
Pads == { 0, MAX_CONTENT_LENGTH - 1, MAX_CONTENT_LENGTH }

\* a POST request: has_file says whether the multipart body has a part named
\* 'code_file'
NoFileRequests ==
    { [has_file |-> FALSE, filename |-> << >>, head |-> << >>, pad |-> 0] }
FileRequests ==
    { [has_file |-> TRUE, filename |-> f, head |-> h, pad |-> p] :
        f \in FileNames, h \in Heads, p \in Pads }
Requests == NoFileRequests \cup FileRequests
NoRequest == [has_file |-> FALSE, filename |-> << >>, head |-> << >>, pad |-> 0]

\* the requests of the specifications that follow what happens between
\* requests rather than the checks of one request: one without a file, two
\* small valid files with different names, one file that is not UTF-8
FewRequests ==
    NoFileRequests
    \cup { [has_file |-> TRUE, filename |-> << "a", ".", "b", ".", "p" >>,
            head |-> << >>, pad |-> 0],
           [has_file |-> TRUE, filename |-> << "/", ".", "a", " ", "$", "b" >>,
            head |-> << 195, 169 >>, pad |-> 0],
           [has_file |-> TRUE, filename |-> << "a", ".", "b", ".", "p" >>,
            head |-> << 255 >>, pad |-> 0] }

\* what the browser automation does when it is called
\* the requests of the overlapping runs: one refused and one accepted upload
OverlapRequests ==
    NoFileRequests
    \cup { [has_file |-> TRUE, filename |-> << "a", ".", "b", ".", "p" >>,
            head |-> << >>, pad |-> 0] }

RenderOutcomes ==
    { [ok |-> TRUE, bytes |-> b, error |-> ""] : b \in Images }
    \cup { [ok |-> FALSE, bytes |-> NoImage, error |-> "Executable doesn't exist"],
           [ok |-> FALSE, bytes |-> NoImage, error |-> "Timeout"] }

\* the renderings of the overlapping runs: one success and one failure
OverlapOutcomes ==
    { o \in RenderOutcomes : o.bytes = "png_a" \/ o.error = "Timeout" }

(***************************************************************************)
(* Pure functions                                                          *)
(***************************************************************************)
\* file.seek(0, os.SEEK_END); file.tell()
FileSize(req) == Len(req.head) + req.pad

\* Content-Length of the request body, which MAX_CONTENT_LENGTH limits: the
\* file bytes and the multipart framing around them (boundary lines and part
\* headers).  The framing is counted as a single byte, the least it can be:
\* a body that is too long here is too long with any real framing.
BodyLength(req) == (IF req.has_file THEN FileSize(req) ELSE 0) + 1

\* bytes.decode("utf-8") succeeds
RECURSIVE IsUtf8(_)
IsUtf8(b) ==
    IF b = << >> THEN TRUE
    ELSE LET h == Head(b)
             Cont(i) == i <= Len(b) /\ b[i] \in 128..191
         IN  IF h < 128 THEN IsUtf8(Tail(b))
             ELSE IF h \in 194..223
                  THEN Cont(2) /\ IsUtf8(SubSeq(b, 3, Len(b)))
             ELSE IF h \in 224..239
                  THEN /\ Cont(2) /\ Cont(3)
                       /\ (h = 224 => b[2] >= 160)
                       /\ (h = 237 => b[2] <= 159)
                       /\ IsUtf8(SubSeq(b, 4, Len(b)))
             ELSE IF h \in 240..244
                  THEN /\ Cont(2) /\ Cont(3) /\ Cont(4)
                       /\ (h = 240 => b[2] >= 144)
                       /\ (h = 244 => b[2] <= 143)
                       /\ IsUtf8(SubSeq(b, 5, Len(b)))
             ELSE FALSE

\* slip: decode(errors="ignore")
Decodes_lenient(req) == TRUE

\* file.read().decode("utf-8") succeeds: the padding is ASCII, and no head of
\* Heads ends in the middle of a character that the padding could complete
Decodes(req) == IsUtf8(req.head)

\* "_".join(filename.split())
RECURSIVE SplitJoin(_, _, _)
SplitJoin(f, started, gap) ==
    IF f = << >> THEN << >>
    ELSE IF Head(f) = " " THEN SplitJoin(Tail(f), started, started)
    ELSE (IF gap THEN << "_" >> ELSE << >>) \o << Head(f) >>
         \o SplitJoin(Tail(f), TRUE, FALSE)

\* str.strip("._")
RECURSIVE StripLeft(_)
StripLeft(f) ==
    IF f # << >> /\ Head(f) \in { ".", "_" } THEN StripLeft(Tail(f)) ELSE f
RECURSIVE StripRight(_)
StripRight(f) ==
    IF f # << >> /\ f[Len(f)] \in { ".", "_" }
    THEN StripRight(SubSeq(f, 1, Len(f) - 1)) ELSE f

\* werkzeug.utils.secure_filename on a POSIX host
SafeChars == { "a", "b", "p", "_", ".", "-" }
secure_filename(f) ==
    LET spaced == [i \in DOMAIN f |-> IF f[i] = "/" THEN " " ELSE f[i]]
        joined == SplitJoin(spaced, FALSE, FALSE)
        ascii == SelectSeq(joined, LAMBDA c : c \in SafeChars)
    IN  StripRight(StripLeft(ascii))

\* filename.rsplit('.', 1)[0]
Stem(f) ==
    LET dots == { i \in DOMAIN f : f[i] = "." }
    IN  IF dots = {} THEN f
        ELSE SubSeq(f, 1, (CHOOSE i \in dots : \A j \in dots : j <= i) - 1)

\* slip: the missing executable is not told apart, and the message is lost
generate_screenshot_silent(filename, outcome) ==
    IF outcome.ok
    THEN [ok |-> TRUE, screenshot_bytes |-> outcome.bytes,
          image_filename |-> Stem(filename) \o Suffix, error |-> NoFlash]
    ELSE [ok |-> FALSE, screenshot_bytes |-> NoImage, image_filename |-> NoFilename,
          error |-> NoFlash]

\* generate_screenshot(code_content, filename) when the browser does `outcome`
generate_screenshot(filename, outcome) ==
    IF outcome.ok
    THEN [ok |-> TRUE, screenshot_bytes |-> outcome.bytes,
          image_filename |-> Stem(filename) \o Suffix, error |-> NoFlash]
    ELSE [ok |-> FALSE, screenshot_bytes |-> NoImage, image_filename |-> NoFilename,
          error |-> IF outcome.error = "Executable doesn't exist"
                    THEN MsgBinariesMissing
                    ELSE MsgRenderFailed \o outcome.error]

(***************************************************************************)
(* State                                                                   *)
(***************************************************************************)
VARIABLES
    SCREENSHOT_CACHE,   \* the process-wide dict: cache id -> [bytes, filename]
    session,            \* per visitor: the content of the signed session cookie
    nextId,             \* the next value uuid.uuid4() returns
    last,               \* the request served last: sender, input, handler locals, response
    handler,            \* per visitor: the request being served, where it stands, its locals
    uploaded            \* per visitor: what its most recent successful upload rendered

vars == << SCREENSHOT_CACHE, session, nextId, last, handler, uploaded >>

EmptyCache == [k \in {} |-> k]
EmptySession == [cache_id |-> NoId, is_redirect |-> FALSE]

\* slip: the entry is never stored
Put_drops(cache, k, entry) == cache

\* slip: a fixed key instead of the fresh one
Put_fixedKey(cache, k, entry) ==
    [j \in DOMAIN cache \cup {1} |-> IF j = 1 THEN entry ELSE cache[j]]

\* SCREENSHOT_CACHE[k] = entry
Put(cache, k, entry) ==
    [j \in DOMAIN cache \cup {k} |-> IF j = k THEN entry ELSE cache[j]]

\* slip: the entry is read but not removed
Pop_keeps(cache, k) == cache

\* slip: the download removes every entry, not only its own
Pop_all(cache, k) == EmptyCache

\* SCREENSHOT_CACHE.pop(k, None)
Pop(cache, k) == [j \in DOMAIN cache \ {k} |-> cache[j]]

\* slip: the store is not emptied
Clear_keeps(cache) == cache

\* SCREENSHOT_CACHE.clear()
Clear(cache) == EmptyCache

\* slip: session.get instead of session.pop
SessionPop_keeps(cookie, key) == cookie

\* slip: session.clear() instead of session.pop
SessionPop_all(cookie, key) == EmptySession

\* session.pop(key, default): the cookie without the key
SessionPop(cookie, key) ==
    IF key = "cache_id" THEN [cookie EXCEPT !.cache_id = NoId]
    ELSE [cookie EXCEPT !.is_redirect = FALSE]

\* `cache_id and cache_id in SCREENSHOT_CACHE`
Resolves(cache_id, cache) == cache_id # NoId /\ cache_id \in DOMAIN cache

\* slip: the redirect flag is not consulted
StaleGet_ignoresFlag(is_redirect, cache_id, cache) == Resolves(cache_id, cache)

\* `not is_redirect and cache_id and cache_id in SCREENSHOT_CACHE`
StaleGet(is_redirect, cache_id, cache) == ~is_redirect /\ Resolves(cache_id, cache)

\* the record kept of a served request; seq alternates so that no request is
\* a stuttering step
Served(s, route, req, kind, status, flash, cache_id, image_data, image_filename, screenshot_bytes) ==
    [seq |-> 1 - last.seq, sess |-> s, route |-> route, req |-> req,
     kind |-> kind, status |-> status, flash |-> flash, cache_id |-> cache_id,
     image_data |-> image_data, image_filename |-> image_filename,
     screenshot_bytes |-> screenshot_bytes]

\* no request of the visitor is being served
Idle ==
    [pc |-> "idle", cookie |-> EmptySession, req |-> NoRequest, cache_id |-> NoId,
     bytes |-> NoImage, filename |-> NoFilename]

\* the visitor has not uploaded with success yet
NoUpload == [cache_id |-> NoId, bytes |-> NoImage, filename |-> NoFilename]

Init ==
    /\ handler = [s \in Sessions |-> Idle]
    /\ uploaded = [s \in Sessions |-> NoUpload]
    /\ SCREENSHOT_CACHE = EmptyCache
    /\ session = [s \in Sessions |-> EmptySession]
    /\ nextId = 1
    /\ last = [seq |-> 0, sess |-> 1, route |-> "none", req |-> NoRequest,
               kind |-> "none", status |-> 0, flash |-> NoFlash, cache_id |-> NoId,
               image_data |-> NoImage, image_filename |-> NoFilename,
               screenshot_bytes |-> NoImage]

(***************************************************************************)
(* index(), request.method == "GET"                                        *)
(***************************************************************************)
IndexGet(s) ==
    LET is_redirect == session[s].is_redirect          \* session.pop('is_redirect', False)
        popped == SessionPop(session[s], "is_redirect")
        cache_id == popped.cache_id                    \* session.get('cache_id')
    IN  /\ IF StaleGet(is_redirect, cache_id, SCREENSHOT_CACHE)
           THEN /\ session' = [session EXCEPT ![s] = SessionPop(popped, "cache_id")]
                /\ SCREENSHOT_CACHE' = Clear(SCREENSHOT_CACHE)
                /\ last' = Served(s, "GET /", NoRequest, "page", 200, NoFlash, cache_id,
                                  NoImage, NoFilename, NoImage)
           ELSE IF Resolves(cache_id, SCREENSHOT_CACHE)
           THEN /\ session' = [session EXCEPT ![s] = popped]
                /\ UNCHANGED SCREENSHOT_CACHE
                /\ last' = Served(s, "GET /", NoRequest, "page", 200, NoFlash, cache_id,
                                  SCREENSHOT_CACHE[cache_id].bytes,
                                  SCREENSHOT_CACHE[cache_id].filename, NoImage)
           ELSE /\ session' = [session EXCEPT ![s] = popped]
                /\ UNCHANGED SCREENSHOT_CACHE
                /\ last' = Served(s, "GET /", NoRequest, "page", 200, NoFlash, cache_id,
                                  NoImage, NoFilename, NoImage)
        /\ UNCHANGED nextId

(***************************************************************************)
(* index(), request.method == "POST"                                       *)
(***************************************************************************)
\* the form re-rendered after flash(msg)
FormWith(s, req, msg) ==
    Served(s, "POST /", req, "page", 200, msg, NoId, NoImage, NoFilename, NoImage)

\* the handler returns (or is aborted) before a new entry is stored
PostFails(s, cleared, emptied, response) ==
    /\ session' = [session EXCEPT ![s] = cleared]
    /\ SCREENSHOT_CACHE' = emptied
    /\ last' = response
    /\ UNCHANGED nextId

IndexPost(s, req) ==
    LET \* session.pop('cache_id', None); session.pop('is_redirect', None)
        cleared == SessionPop(SessionPop(session[s], "cache_id"), "is_redirect")
        emptied == Clear(SCREENSHOT_CACHE)
        filename == secure_filename(req.filename)
        cache_id == nextId                              \* str(uuid.uuid4())
    IN  IF BodyLength(req) > MAX_CONTENT_LENGTH
        THEN \* request.files parses the body: werkzeug raises
             \* RequestEntityTooLarge and Flask answers 413
             PostFails(s, cleared, emptied,
                       Served(s, "POST /", req, "abort", 413, NoFlash, NoId,
                              NoImage, NoFilename, NoImage))
        ELSE IF ~req.has_file
        THEN PostFails(s, cleared, emptied, FormWith(s, req, MsgNoFileUploaded))
        ELSE IF req.filename = << >>
        THEN PostFails(s, cleared, emptied, FormWith(s, req, MsgNoFileSelected))
        ELSE IF FileSize(req) > MAX_CONTENT_LENGTH
        THEN PostFails(s, cleared, emptied, FormWith(s, req, MsgTooLarge))
        ELSE IF ~Decodes(req)
        THEN PostFails(s, cleared, emptied, FormWith(s, req, MsgBadEncoding))
        ELSE \E outcome \in RenderOutcomes :
          LET shot == generate_screenshot(filename, outcome)
          IN  IF shot.ok
              THEN /\ nextId <= MaxUploads
                   /\ SCREENSHOT_CACHE' =
                          Put(emptied, cache_id,
                              [bytes |-> shot.screenshot_bytes,
                               filename |-> shot.image_filename])
                   /\ session' = [session EXCEPT ![s] =
                                     [cleared EXCEPT !.cache_id = cache_id,
                                                     !.is_redirect = TRUE]]
                   /\ nextId' = nextId + 1
                   /\ last' = Served(s, "POST /", req, "redirect", 302, NoFlash, cache_id,
                                     NoImage, shot.image_filename, shot.screenshot_bytes)
              ELSE PostFails(s, cleared, emptied, FormWith(s, req, shot.error))

(***************************************************************************)
(* download_image()                                                        *)
(***************************************************************************)
\* slip: the cleanup of the success path is done before the check
DownloadFails_cleans(s, cache_id) ==
    /\ SCREENSHOT_CACHE' = Clear(SCREENSHOT_CACHE)
    /\ session' = [session EXCEPT ![s] = EmptySession]
    /\ last' = Served(s, "GET /download", NoRequest, "redirect", 302, MsgNoImage,
                      cache_id, NoImage, NoFilename, NoImage)

\* flash(...); return redirect(url_for('index'))
DownloadFails(s, cache_id) ==
    /\ UNCHANGED << SCREENSHOT_CACHE, session >>
    /\ last' = Served(s, "GET /download", NoRequest, "redirect", 302, MsgNoImage,
                      cache_id, NoImage, NoFilename, NoImage)

DownloadImage(s) ==
    LET cache_id == session[s].cache_id                \* session.get('cache_id')
    IN  /\ IF ~Resolves(cache_id, SCREENSHOT_CACHE)
           THEN DownloadFails(s, cache_id)
           ELSE /\ SCREENSHOT_CACHE' = Pop(SCREENSHOT_CACHE, cache_id)
                /\ session' = [session EXCEPT ![s] =
                                  SessionPop(SessionPop(session[s], "cache_id"), "is_redirect")]
                /\ last' = Served(s, "GET /download", NoRequest, "attachment", 200, NoFlash,
                                  cache_id, NoImage, SCREENSHOT_CACHE[cache_id].filename,
                                  SCREENSHOT_CACHE[cache_id].bytes)
        /\ UNCHANGED nextId

\* Requests are served one at a time, each from its first line to its response
AtomicGet(s) == IndexGet(s) /\ UNCHANGED << handler, uploaded >>
AtomicPost(s, req) == IndexPost(s, req) /\ UNCHANGED << handler, uploaded >>
AtomicDownload(s) == DownloadImage(s) /\ UNCHANGED << handler, uploaded >>

Next ==
    \/ \E s \in Sessions : AtomicGet(s)
    \/ \E s \in Sessions, req \in Requests : AtomicPost(s, req)
    \/ \E s \in Sessions : AtomicDownload(s)

Spec == Init /\ [][Next]_vars

(***************************************************************************)
(* The same, with the record of what each visitor's most recent successful *)
(* upload rendered (a history variable: the program does not keep it).     *)
(***************************************************************************)
Remember ==
    uploaded' =
        IF last'.route = "POST /" /\ last'.kind = "redirect"
        THEN [uploaded EXCEPT ![last'.sess] =
                 [cache_id |-> last'.cache_id, bytes |-> last'.screenshot_bytes,
                  filename |-> last'.image_filename]]
        ELSE uploaded

HistGet(s) == IndexGet(s) /\ Remember /\ UNCHANGED handler
\* in the history runs the rendered image is determined by the file's content
HistPost(s, req) ==
    /\ IndexPost(s, req)
    /\ last'.screenshot_bytes \in Images
         => (last'.screenshot_bytes = "png_a" <=> req.head = << >>)
    /\ Remember
    /\ UNCHANGED handler
HistDownload(s) == DownloadImage(s) /\ Remember /\ UNCHANGED handler

NextHist ==
    \/ \E s \in Sessions : HistGet(s)
    \/ \E s \in Sessions, req \in FewRequests : HistPost(s, req)
    \/ \E s \in Sessions : HistDownload(s)

SpecHist == Init /\ [][NextHist]_vars

(***************************************************************************)
(* Overlapping requests.  The server runs one thread per request and no    *)
(* lock protects SCREENSHOT_CACHE: between two accesses of the dict by one *)
(* handler, the handlers of other visitors may run.  Each visitor has at   *)
(* most one request in flight; handler[s].cookie is the session of the     *)
(* request, which reaches the visitor's cookie with the response.  A       *)
(* handler stops at every access of the dict and at the render call.       *)
(***************************************************************************)
Working(s, pc, cookie, req, cache_id, bytes, filename) ==
    [handler EXCEPT ![s] =
        [pc |-> pc, cookie |-> cookie, req |-> req, cache_id |-> cache_id,
         bytes |-> bytes, filename |-> filename]]

\* the response leaves: the session is written to the cookie
Respond(s, cookie, response) ==
    /\ session' = [session EXCEPT ![s] = cookie]
    /\ handler' = [handler EXCEPT ![s] = Idle]
    /\ last' = response

\* SCREENSHOT_CACHE[cache_id] raises KeyError and nothing catches it: the
\* answer is 500.  Flask writes the session to the cookie when it builds the
\* 500 response itself; with app.run(debug=True) the exception is propagated
\* to the debugger and the cookie is not written.
KeyErrorResponse(s, route, cookie, cache_id) ==
    \E written \in BOOLEAN :
        Respond(s, IF written THEN cookie ELSE session[s],
                Served(s, route, NoRequest, "error", 500, NoFlash, cache_id,
                       NoImage, NoFilename, NoImage))

\* index() on GET, lines 113-120: the session is read and the branch chosen.
\* The two tests of `cache_id in SCREENSHOT_CACHE` (lines 116 and 120) are one
\* step: a key that is absent at line 116 is still absent at line 120, since
\* only the handler that drew the key inserts it.
GetBegin(s) ==
    LET is_redirect == session[s].is_redirect
        popped == SessionPop(session[s], "is_redirect")
        cache_id == popped.cache_id
    IN  /\ handler[s].pc = "idle"
        /\ IF StaleGet(is_redirect, cache_id, SCREENSHOT_CACHE)
           THEN /\ handler' = Working(s, "get_clear", popped, NoRequest, cache_id,
                                      NoImage, NoFilename)
                /\ UNCHANGED << session, last >>
           ELSE IF Resolves(cache_id, SCREENSHOT_CACHE)
           THEN /\ handler' = Working(s, "get_read", popped, NoRequest, cache_id,
                                      NoImage, NoFilename)
                /\ UNCHANGED << session, last >>
           ELSE Respond(s, popped,
                        Served(s, "GET /", NoRequest, "page", 200, NoFlash, cache_id,
                               NoImage, NoFilename, NoImage))
        /\ UNCHANGED << SCREENSHOT_CACHE, nextId, uploaded >>

\* lines 118-119 and 125
GetClear(s) ==
    /\ handler[s].pc = "get_clear"
    /\ SCREENSHOT_CACHE' = Clear(SCREENSHOT_CACHE)
    /\ Respond(s, SessionPop(handler[s].cookie, "cache_id"),
               Served(s, "GET /", NoRequest, "page", 200, NoFlash, handler[s].cache_id,
                      NoImage, NoFilename, NoImage))
    /\ UNCHANGED << nextId, uploaded >>

\* lines 122-123 and 125
GetRead(s) ==
    LET cache_id == handler[s].cache_id
    IN  /\ handler[s].pc = "get_read"
        /\ IF cache_id \in DOMAIN SCREENSHOT_CACHE
           THEN Respond(s, handler[s].cookie,
                        Served(s, "GET /", NoRequest, "page", 200, NoFlash, cache_id,
                               SCREENSHOT_CACHE[cache_id].bytes,
                               SCREENSHOT_CACHE[cache_id].filename, NoImage))
           ELSE KeyErrorResponse(s, "GET /", handler[s].cookie, cache_id)
        /\ UNCHANGED << SCREENSHOT_CACHE, nextId, uploaded >>

\* index() on POST, lines 130-163: the store is emptied and the upload checked
PostBegin(s, req) ==
    LET cleared == SessionPop(SessionPop(session[s], "cache_id"), "is_redirect")
    IN  /\ handler[s].pc = "idle"
        /\ SCREENSHOT_CACHE' = Clear(SCREENSHOT_CACHE)
        /\ IF BodyLength(req) > MAX_CONTENT_LENGTH
           THEN Respond(s, cleared,
                        Served(s, "POST /", req, "abort", 413, NoFlash, NoId,
                               NoImage, NoFilename, NoImage))
           ELSE IF ~req.has_file
           THEN Respond(s, cleared, FormWith(s, req, MsgNoFileUploaded))
           ELSE IF req.filename = << >>
           THEN Respond(s, cleared, FormWith(s, req, MsgNoFileSelected))
           ELSE IF FileSize(req) > MAX_CONTENT_LENGTH
           THEN Respond(s, cleared, FormWith(s, req, MsgTooLarge))
           ELSE IF ~Decodes(req)
           THEN Respond(s, cleared, FormWith(s, req, MsgBadEncoding))
           ELSE /\ handler' = Working(s, "post_render", cleared, req, NoId,
                                      NoImage, NoFilename)
                /\ UNCHANGED << session, last >>
        /\ UNCHANGED << nextId, uploaded >>

\* lines 167-168: the blocking render call returns or raises, and the cache
\* id is drawn
PostRender(s) ==
    /\ handler[s].pc = "post_render"
    /\ \E outcome \in OverlapOutcomes :
         LET req == handler[s].req
             shot == generate_screenshot(secure_filename(req.filename), outcome)
         IN  IF shot.ok
             THEN /\ nextId <= MaxUploads
                  /\ nextId' = nextId + 1
                  /\ handler' = Working(s, "post_store", handler[s].cookie, req, nextId,
                                        shot.screenshot_bytes, shot.image_filename)
                  /\ UNCHANGED << session, last >>
             ELSE /\ Respond(s, handler[s].cookie, FormWith(s, req, shot.error))
                  /\ UNCHANGED nextId
    /\ UNCHANGED << SCREENSHOT_CACHE, uploaded >>

\* lines 169-176
PostStore(s) ==
    LET h == handler[s]
    IN  /\ h.pc = "post_store"
        /\ SCREENSHOT_CACHE' =
               Put(SCREENSHOT_CACHE, h.cache_id, [bytes |-> h.bytes, filename |-> h.filename])
        /\ Respond(s, [h.cookie EXCEPT !.cache_id = h.cache_id, !.is_redirect = TRUE],
                   Served(s, "POST /", h.req, "redirect", 302, NoFlash, h.cache_id,
                          NoImage, h.filename, h.bytes))
        /\ UNCHANGED << nextId, uploaded >>

\* download_image(), lines 187-191
DownloadBegin(s) ==
    LET cache_id == session[s].cache_id
    IN  /\ handler[s].pc = "idle"
        /\ IF ~Resolves(cache_id, SCREENSHOT_CACHE)
           THEN Respond(s, session[s],
                        Served(s, "GET /download", NoRequest, "redirect", 302, MsgNoImage,
                               cache_id, NoImage, NoFilename, NoImage))
           ELSE /\ handler' = Working(s, "download_read", session[s], NoRequest, cache_id,
                                      NoImage, NoFilename)
                /\ UNCHANGED << session, last >>
        /\ UNCHANGED << SCREENSHOT_CACHE, nextId, uploaded >>

\* lines 193-206: the read at line 193 is outside the try; the pop of line
\* 203 has a default and cannot fail, so it is taken together with the read
DownloadRead(s) ==
    LET cache_id == handler[s].cache_id
    IN  /\ handler[s].pc = "download_read"
        /\ IF cache_id \in DOMAIN SCREENSHOT_CACHE
           THEN /\ SCREENSHOT_CACHE' = Pop(SCREENSHOT_CACHE, cache_id)
                /\ Respond(s, SessionPop(SessionPop(handler[s].cookie, "cache_id"),
                                         "is_redirect"),
                           Served(s, "GET /download", NoRequest, "attachment", 200, NoFlash,
                                  cache_id, NoImage, SCREENSHOT_CACHE[cache_id].filename,
                                  SCREENSHOT_CACHE[cache_id].bytes))
           ELSE /\ KeyErrorResponse(s, "GET /download", handler[s].cookie, cache_id)
                /\ UNCHANGED SCREENSHOT_CACHE
        /\ UNCHANGED << nextId, uploaded >>

NextConc ==
    \/ \E s \in Sessions : GetBegin(s)
    \/ \E s \in Sessions : GetClear(s)
    \/ \E s \in Sessions : GetRead(s)
    \/ \E s \in Sessions, req \in OverlapRequests : PostBegin(s, req)
    \/ \E s \in Sessions : PostRender(s)
    \/ \E s \in Sessions : PostStore(s)
    \/ \E s \in Sessions : DownloadBegin(s)
    \/ \E s \in Sessions : DownloadRead(s)

SpecConc == Init /\ [][NextConc]_vars

(***************************************************************************)
(* Vocabulary of the properties                                            *)
(***************************************************************************)
EndsWith(f, suffix) ==
    /\ Len(f) >= Len(suffix)
    /\ SubSeq(f, Len(f) - Len(suffix) + 1, Len(f)) = suffix

\* the messages of the RuntimeErrors that generate_screenshot raises
RenderErrors == { MsgBinariesMissing, MsgRenderFailed \o "Timeout" }

\* r is the response of a POST / that stored a new image
UploadSucceeded(r) == r.route = "POST /" /\ r.kind = "redirect"

\* r is the page of GET / showing an image
ShowsImage(r) == r.route = "GET /" /\ r.kind = "page" /\ r.image_data # NoImage

\* r is the attachment of GET /download
ServesImage(r) == r.route = "GET /download" /\ r.kind = "attachment"

\* r is the answer of GET /download when there is nothing to download
NoImageAnswer(r) ==
    /\ r.route = "GET /download" /\ r.kind = "redirect" /\ r.status = 302
    /\ r.flash = MsgNoImage
    /\ r.image_data = NoImage /\ r.screenshot_bytes = NoImage

\* r is the page of a GET / that took the "manual refresh" branch: the
\* handler read a cache_id and the session no longer has one
WasStaleGet(r) ==
    /\ r.route = "GET /" /\ r.cache_id # NoId
    /\ session[r.sess].cache_id = NoId

\* the request reaches file.read().decode(): the body is accepted and the
\* checks of file presence, filename and size pass
ReachesDecoding(req) ==
    /\ BodyLength(req) <= MAX_CONTENT_LENGTH
    /\ req.has_file /\ req.filename # << >>
    /\ FileSize(req) <= MAX_CONTENT_LENGTH

(***************************************************************************)
(* C1: an upload that passes every check and whose render does not fail is *)
(* answered with a redirect (302) and has rendered bytes; when the next    *)
(* request is GET / of the same session, its page carries exactly the      *)
(* rendered bytes and the derived filename, which ends in _code_image.png. *)
(***************************************************************************)
C1_PostRedirectGet ==
    [][ /\ ( /\ last'.route = "POST /"
              /\ ReachesDecoding(last'.req) /\ IsUtf8(last'.req.head)
              /\ last'.flash \notin RenderErrors )
            => /\ last'.kind = "redirect" /\ last'.status = 302
               /\ last'.screenshot_bytes \in Images
               /\ last'.image_filename =
                      Stem(secure_filename(last'.req.filename)) \o Suffix
        /\ (last'.route = "POST /" /\ last'.screenshot_bytes # NoImage)
            => (last'.kind = "redirect" /\ last'.status = 302)
        /\ (UploadSucceeded(last) /\ last'.route = "GET /" /\ last'.sess = last.sess)
            => /\ last'.kind = "page" /\ last'.status = 200
               /\ last'.image_data = last.screenshot_bytes
               /\ last'.image_data \in Images
               /\ last'.image_filename = last.image_filename
               /\ EndsWith(last'.image_filename, Suffix)
      ]_vars

C1_Witness ==
    /\ ShowsImage(last)
    /\ last.image_data \in Images
    /\ EndsWith(last.image_filename, Suffix)
    /\ Len(last.image_filename) > Len(Suffix)

(***************************************************************************)
(* C2: the download works once.  A GET /download that directly follows the *)
(* session's successful upload, or the page that displayed its image,      *)
(* returns the stored bytes and filename as an attachment, deletes the     *)
(* entry and clears cache_id and is_redirect.  A GET /download of a        *)
(* session that has no cache_id (as after its download) gets the "no image *)
(* available" redirect, and only a successful upload of the session gives  *)
(* it a cache_id again.                                                    *)
(***************************************************************************)
C2_OneTimeDownload ==
    [][ LET s == last'.sess
            Attachment(bytes, filename) ==
                /\ ServesImage(last') /\ last'.status = 200
                /\ last'.screenshot_bytes = bytes /\ bytes \in Images
                /\ last'.image_filename = filename
                /\ last'.cache_id \notin DOMAIN SCREENSHOT_CACHE'
                /\ session'[s] = EmptySession
        IN  /\ (last'.route = "GET /download" /\ UploadSucceeded(last) /\ last.sess = s)
                => Attachment(last.screenshot_bytes, last.image_filename)
            /\ (last'.route = "GET /download" /\ ShowsImage(last) /\ last.sess = s)
                => Attachment(last.image_data, last.image_filename)
            /\ (last'.route = "GET /download" /\ ServesImage(last) /\ last.sess = s)
                => NoImageAnswer(last')
            /\ (last'.route = "GET /download" /\ session[s].cache_id = NoId)
                => NoImageAnswer(last')
            /\ \A t \in Sessions :
                 (session[t].cache_id = NoId /\ session'[t].cache_id # NoId)
                    => (UploadSucceeded(last') /\ last'.sess = t)
      ]_vars

C2_Witness ==
    /\ ServesImage(last)
    /\ last.screenshot_bytes \in Images
    /\ EndsWith(last.image_filename, Suffix)
    /\ SCREENSHOT_CACHE = EmptyCache
    /\ session[last.sess] = EmptySession

(***************************************************************************)
(* C3: a GET / of a session without is_redirect whose cache_id resolves    *)
(* removes the cache_id, empties the whole store and shows the form        *)
(* without an image; a GET /download of the session right after it gets    *)
(* the "no image available" redirect.                                      *)
(***************************************************************************)
C3_ReloadClears ==
    [][ LET s == last'.sess
        IN  /\ ( /\ last'.route = "GET /"
                 /\ ~session[s].is_redirect
                 /\ Resolves(session[s].cache_id, SCREENSHOT_CACHE) )
                => /\ session'[s] = EmptySession
                   /\ SCREENSHOT_CACHE' = EmptyCache
                   /\ last'.kind = "page" /\ last'.status = 200
                   /\ last'.image_data = NoImage /\ last'.image_filename = NoFilename
            /\ (last'.route = "GET /download" /\ WasStaleGet(last) /\ last.sess = s)
                => (NoImageAnswer(last') /\ UNCHANGED << SCREENSHOT_CACHE, session >>)
      ]_vars

C3_Witness ==
    /\ WasStaleGet(last)
    /\ last.image_data = NoImage
    /\ SCREENSHOT_CACHE = EmptyCache
    /\ nextId > 1

(***************************************************************************)
(* C4: size-limit boundary of POST /.  A file of exactly                   *)
(* MAX_CONTENT_LENGTH bytes is accepted (the handler goes on to decode and *)
(* render it), and a file of one byte more is answered with the form and   *)
(* 'File too large. Maximum size is 1024 KB.'.                             *)
(***************************************************************************)
C4_SizeBoundary ==
    (last.route = "POST /" /\ last.req.has_file /\ last.req.filename # << >>)
        => /\ (FileSize(last.req) = MAX_CONTENT_LENGTH)
                => \/ last.kind = "redirect"
                   \/ last.kind = "page" /\ last.flash \in RenderErrors \cup { MsgBadEncoding }
           /\ (FileSize(last.req) = MAX_CONTENT_LENGTH + 1)
                => /\ last.kind = "page"
                   /\ last.flash = "File too large. Maximum size is 1024 KB."

(***************************************************************************)
(* C5: POST / reports the first failing check in the order: file part      *)
(* missing, filename empty, size above the limit, bytes not UTF-8; the     *)
(* form is re-rendered with that message and the renderer is not called.   *)
(***************************************************************************)
C5_ValidationOrder ==
    (last.route = "POST /")
        => LET req == last.req
               FailsWith(msg) ==
                   /\ last.kind = "page" /\ last.status = 200 /\ last.flash = msg
                   /\ last.screenshot_bytes = NoImage
           IN  IF ~req.has_file THEN FailsWith("No file uploaded.")
               ELSE IF req.filename = << >> THEN FailsWith("No file selected.")
               ELSE IF FileSize(req) > MAX_CONTENT_LENGTH
                    THEN FailsWith("File too large. Maximum size is 1024 KB.")
               ELSE IF ~IsUtf8(req.head)
                    THEN FailsWith("Invalid file encoding. Please upload a UTF-8 encoded text file.")
               ELSE TRUE

(***************************************************************************)
(* C6: a POST / that reaches the decoding step with bytes that are not     *)
(* valid UTF-8 re-renders the form with the encoding message, leaves the   *)
(* store empty and the session without cache_id and is_redirect; a GET /   *)
(* or GET /download of the session right after it carries no image.        *)
(***************************************************************************)
BadEncodingAnswer(r) ==
    /\ r.route = "POST /" /\ ReachesDecoding(r.req) /\ ~IsUtf8(r.req.head)

C6_BadEncoding ==
    [][ /\ BadEncodingAnswer(last')
            => /\ last'.kind = "page" /\ last'.status = 200
               /\ last'.flash =
                      "Invalid file encoding. Please upload a UTF-8 encoded text file."
               /\ last'.screenshot_bytes = NoImage
               /\ SCREENSHOT_CACHE' = EmptyCache
               /\ session'[last'.sess] = EmptySession
               /\ nextId' = nextId
        /\ (BadEncodingAnswer(last) /\ last'.sess = last.sess /\ last'.route = "GET /")
            => (last'.kind = "page" /\ last'.image_data = NoImage)
        /\ (BadEncodingAnswer(last) /\ last'.sess = last.sess /\ last'.route = "GET /download")
            => NoImageAnswer(last')
      ]_vars

C6_Witness ==
    /\ BadEncodingAnswer(last)
    /\ last.flash = MsgBadEncoding
    /\ nextId > 1

(***************************************************************************)
(* C7: single-slot eviction.  After a successful upload the store holds    *)
(* exactly the new entry (the rendered bytes and the derived filename)     *)
(* under the key given to the uploading session, and none of the entries   *)
(* it held before; a key that has left the store never comes back, and     *)
(* every response that carries an image reads it from an entry that is in  *)
(* the store when the request arrives.                                     *)
(***************************************************************************)
C7_SingleSlotEviction ==
    [][ /\ UploadSucceeded(last')
            => /\ DOMAIN SCREENSHOT_CACHE' = { last'.cache_id }
               /\ SCREENSHOT_CACHE'[last'.cache_id] =
                      [bytes |-> last'.screenshot_bytes, filename |-> last'.image_filename]
               /\ session'[last'.sess].cache_id = last'.cache_id
               /\ DOMAIN SCREENSHOT_CACHE \cap DOMAIN SCREENSHOT_CACHE' = {}
        /\ \A k \in 1..(nextId - 1) :
               k \notin DOMAIN SCREENSHOT_CACHE => k \notin DOMAIN SCREENSHOT_CACHE'
        /\ (ShowsImage(last') \/ ServesImage(last'))
            => /\ last'.cache_id \in DOMAIN SCREENSHOT_CACHE
               /\ SCREENSHOT_CACHE[last'.cache_id] =
                      [bytes |-> IF ShowsImage(last') THEN last'.image_data
                                 ELSE last'.screenshot_bytes,
                       filename |-> last'.image_filename]
      ]_vars

\* the second upload has just been stored and the first one's entry is gone
C7_Witness ==
    /\ UploadSucceeded(last)
    /\ last.cache_id = 2
    /\ DOMAIN SCREENSHOT_CACHE = { 2 }
    /\ \E s \in Sessions : s # last.sess /\ session[s].cache_id = 1

(***************************************************************************)
(* C8: every POST /, whatever its outcome, empties the store and removes   *)
(* cache_id and is_redirect from the sending session before anything else: *)
(* no entry that was in the store before the POST is in it afterwards, the *)
(* store and the session are empty unless the upload succeeded, and then   *)
(* they hold only what this upload has set.                                *)
(***************************************************************************)
C8_PostClearsFirst ==
    [][ (last'.route = "POST /")
            => /\ DOMAIN SCREENSHOT_CACHE \cap DOMAIN SCREENSHOT_CACHE' = {}
               /\ IF UploadSucceeded(last')
                  THEN /\ DOMAIN SCREENSHOT_CACHE' = { last'.cache_id }
                       /\ session'[last'.sess] =
                              [cache_id |-> last'.cache_id, is_redirect |-> TRUE]
                  ELSE /\ SCREENSHOT_CACHE' = EmptyCache
                       /\ session'[last'.sess] = EmptySession
      ]_vars

\* a failed POST of one session has removed the entry of another session
C8_Witness ==
    /\ last.route = "POST /" /\ last.kind # "redirect"
    /\ SCREENSHOT_CACHE = EmptyCache
    /\ \E s \in Sessions : s # last.sess /\ session[s].cache_id # NoId

(***************************************************************************)
(* C9: single-slot invariant.  With requests served one after the other,   *)
(* the store never holds more than one entry.                              *)
(***************************************************************************)
C9_AtMostOneEntry == Cardinality(DOMAIN SCREENSHOT_CACHE) <= 1

\* the second upload is in the store
C9_Witness ==
    /\ Cardinality(DOMAIN SCREENSHOT_CACHE) = 1
    /\ nextId > 2

(***************************************************************************)
(* C10: session invariant as stated: every session that holds a cache_id   *)
(* holds the key of an entry of the store.                                 *)
(***************************************************************************)
Live(s) == session[s].cache_id = NoId \/ session[s].cache_id \in DOMAIN SCREENSHOT_CACHE

C10_NoDanglingCacheId == \A s \in Sessions : Live(s)

(***************************************************************************)
(* C10 as amended: a cache_id is the key of an entry of the store when the *)
(* session receives it, and no request leaves its own session with a       *)
(* cache_id that has stopped being a key of the store; a session's         *)
(* cache_id becomes dangling only when a request of another session        *)
(* empties the store.                                                      *)
(***************************************************************************)
C10_DanglingOnlyByOthers ==
    [][ /\ \A s \in Sessions : (Live(s) /\ ~Live(s)') => last'.sess # s
        /\ \A s \in Sessions :
               (session'[s].cache_id # session[s].cache_id /\ session'[s].cache_id # NoId)
                   => Live(s)'
      ]_vars

\* a session is left with a dangling cache_id by the request of another one
C10_Witness ==
    \E s \in Sessions : ~Live(s) /\ last.sess # s

(***************************************************************************)
(* C11: a render failure is recoverable.  A POST / that passes every check *)
(* and is not answered with the redirect re-renders the form with the      *)
(* message of the RuntimeError (browser binaries missing, or the wrapped    *)
(* automation failure), leaves the store empty and the session without     *)
(* cache_id and is_redirect, and draws no cache id; in the state it leaves *)
(* the same session can upload again with success.                         *)
(***************************************************************************)
RenderFailed(r) ==
    /\ r.route = "POST /" /\ ReachesDecoding(r.req) /\ IsUtf8(r.req.head)
    /\ r.kind # "redirect"

C11_RenderFailureRecoverable ==
    /\ [][ RenderFailed(last')
            => /\ last'.kind = "page" /\ last'.status = 200
               /\ last'.flash \in RenderErrors
               /\ last'.screenshot_bytes = NoImage
               /\ SCREENSHOT_CACHE' = EmptyCache
               /\ session'[last'.sess] = EmptySession
               /\ nextId' = nextId
      ]_vars
    /\ [](  (RenderFailed(last) /\ nextId <= MaxUploads)
            => ENABLED (IndexPost(last.sess, last.req) /\ UploadSucceeded(last')) )

\* the browser binaries were missing, after an earlier upload had succeeded
C11_Witness ==
    /\ RenderFailed(last)
    /\ last.flash = MsgBinariesMissing
    /\ SCREENSHOT_CACHE = EmptyCache
    /\ nextId > 1 /\ nextId <= MaxUploads

(***************************************************************************)
(* C12: frame of GET /.  A GET / that finds is_redirect set and a cache_id *)
(* that resolves only removes is_redirect from the sending session; a      *)
(* GET / whose session has no cache_id, or one that does not resolve,      *)
(* leaves the store and every session's cache_id unchanged and shows no    *)
(* image; no GET / changes the state of another session, and none draws a  *)
(* cache id.                                                               *)
(***************************************************************************)
C12_GetFrame ==
    [][ (last'.route = "GET /")
            => LET s == last'.sess
               IN  /\ (session[s].is_redirect /\ Resolves(session[s].cache_id, SCREENSHOT_CACHE))
                        => /\ SCREENSHOT_CACHE' = SCREENSHOT_CACHE
                           /\ session'[s] = [session[s] EXCEPT !.is_redirect = FALSE]
                           /\ ShowsImage(last')
                   /\ ~Resolves(session[s].cache_id, SCREENSHOT_CACHE)
                        => /\ SCREENSHOT_CACHE' = SCREENSHOT_CACHE
                           /\ \A t \in Sessions : session'[t].cache_id = session[t].cache_id
                           /\ last'.kind = "page" /\ last'.image_data = NoImage
                   /\ \A t \in Sessions \ {s} : session'[t] = session[t]
                   /\ nextId' = nextId
      ]_vars

\* the page after the redirect has been shown: the entry and the cache_id stay
C12_Witness ==
    /\ ShowsImage(last)
    /\ Resolves(session[last.sess].cache_id, SCREENSHOT_CACHE)
    /\ ~session[last.sess].is_redirect

(***************************************************************************)
(* C13: a GET /download whose session has no cache_id, or a cache_id that  *)
(* is not a key of the store, returns no image bytes, flashes the "no      *)
(* image available" message, redirects to the form and leaves the store    *)
(* and every session as they were.                                         *)
(***************************************************************************)
C13_DownloadMissFrame ==
    [][ ( /\ last'.route = "GET /download"
          /\ ~Resolves(session[last'.sess].cache_id, SCREENSHOT_CACHE) )
            => /\ NoImageAnswer(last')
               /\ UNCHANGED << SCREENSHOT_CACHE, session, nextId >>
      ]_vars

\* the download of a session whose entry another session has removed
C13_Witness ==
    /\ NoImageAnswer(last)
    /\ last.cache_id # NoId
    /\ session[last.sess].cache_id = last.cache_id
    /\ session[last.sess].is_redirect
    /\ last.cache_id \notin DOMAIN SCREENSHOT_CACHE

(***************************************************************************)
(* C17: session isolation of reads.  Whenever the page of GET / or the     *)
(* attachment of GET /download carries an image, its bytes, its filename   *)
(* and the cache id it was read under are those of the most recent         *)
(* successful upload of the session that sent the request, and the cache   *)
(* id is not that of the most recent upload of any other session.          *)
(***************************************************************************)
C17_ReadsOwnLatestUpload ==
    (ShowsImage(last) \/ ServesImage(last))
        => LET s == last.sess
               bytes == IF ShowsImage(last) THEN last.image_data ELSE last.screenshot_bytes
           IN  /\ uploaded[s].cache_id # NoId
               /\ last.cache_id = uploaded[s].cache_id
               /\ bytes = uploaded[s].bytes
               /\ last.image_filename = uploaded[s].filename
               /\ \A t \in Sessions \ {s} : uploaded[t].cache_id # last.cache_id

\* a session is served its own image although the other session has uploaded
\* a different one before it
C17_Witness ==
    /\ ServesImage(last)
    /\ last.screenshot_bytes = uploaded[last.sess].bytes
    /\ \E t \in Sessions \ {last.sess} :
          /\ uploaded[t].cache_id # NoId
          /\ uploaded[t].bytes # uploaded[last.sess].bytes
          /\ uploaded[t].filename # uploaded[last.sess].filename

(***************************************************************************)
(* C14: cross-session clobbering.  A session that is not being served and  *)
(* whose cache_id resolves loses its entry only by the step of another     *)
(* session that empties the store: the first step of a POST /, or the      *)
(* clear of a reload GET / that found that session's own entry stale.      *)
(* From then on its GET / shows the form without an image and keeps the    *)
(* dangling cache_id, and its GET /download gets the "no image available"  *)
(* redirect.                                                               *)
(***************************************************************************)
Dangling(s) ==
    session[s].cache_id # NoId /\ session[s].cache_id \notin DOMAIN SCREENSHOT_CACHE

C14_Clobbering ==
    [][ \A a \in Sessions :
          /\ ( /\ handler[a].pc = "idle" /\ handler'[a].pc = "idle"
               /\ Resolves(session[a].cache_id, SCREENSHOT_CACHE)
               /\ session'[a] = session[a]
               /\ session[a].cache_id \notin DOMAIN SCREENSHOT_CACHE' )
                => /\ SCREENSHOT_CACHE' = EmptyCache
                   /\ \E b \in Sessions \ {a} :
                        \/ handler[b].pc = "idle" /\ handler'[b].pc = "post_render"
                        \/ handler[b].pc = "idle" /\ last'.sess = b /\ last'.route = "POST /"
                        \/ /\ handler[b].pc = "get_clear" /\ last'.sess = b
                           /\ last'.route = "GET /" /\ last'.cache_id # session[a].cache_id
          /\ ( /\ handler[a].pc = "idle" /\ handler'[a].pc = "idle"
               /\ Dangling(a)
               /\ last'.seq # last.seq /\ last'.sess = a /\ last'.route = "GET /" )
                => /\ last'.kind = "page" /\ last'.image_data = NoImage
                   /\ session'[a].cache_id = session[a].cache_id
                   /\ UNCHANGED SCREENSHOT_CACHE
          /\ ( /\ handler[a].pc = "idle" /\ handler'[a].pc = "idle"
               /\ Dangling(a)
               /\ last'.seq # last.seq /\ last'.sess = a /\ last'.route = "GET /download" )
                => /\ NoImageAnswer(last')
                   /\ UNCHANGED << SCREENSHOT_CACHE, session >>
      ]_vars

\* The reload of session b, which drew the first cache id, has just emptied
\* the store, and session a, which drew the second one and has stored its
\* image, has neither displayed nor downloaded it (is_redirect is still set):
\* only b's reload can have removed a's entry.
C14_Witness ==
    /\ WasStaleGet(last) /\ last.cache_id = 1
    /\ SCREENSHOT_CACHE = EmptyCache
    /\ \A s \in Sessions : handler[s].pc = "idle"
    /\ \E a \in Sessions \ {last.sess} :
          /\ session[a].cache_id = 2
          /\ session[a].is_redirect

(***************************************************************************)
(* C15: the store holds at most one entry also when the steps of two       *)
(* POST / requests of different sessions interleave.                       *)
(***************************************************************************)
C15_AtMostOneEntryOverlapping ==
    \A j, k \in DOMAIN SCREENSHOT_CACHE : j = k

(***************************************************************************)
(* C16: every request ends with a page, a redirect or the attachment and   *)
(* never with an unhandled error, also when the requests of different      *)
(* sessions overlap.  (The 413 that answers an over-long body is left out  *)
(* here: it is the subject of C4.)                                         *)
(***************************************************************************)
C16_AlwaysNormalResponse ==
    (last.route # "none" /\ last.status # 413)
        => /\ last.kind \in { "page", "redirect", "attachment" }
           /\ last.status \in { 200, 302 }

====
